---- MODULE Spec2Model ----
(***************************************************************************)
(* Model of the versioned document store of mmm/metadata_collector.py      *)
(* (class MetadataCollector): two MongoDB databases ("current" and         *)
(* "history"), a per-instance read cache with a timeout, and the document  *)
(* operations insert / replace / get / delete / list / healthcheck /       *)
(* reset_version_history; and of the connection pool of                    *)
(* mmm/data_sources/postgresql.py (class PgDatabaseConnector).             *)
(*                                                                         *)
(* A MongoDB collection is a sequence of documents in insertion order (no  *)
(* unique index is ever created on "#id").  A document is a function from  *)
(* its keys to its values.  Every database access of an operation is one   *)
(* step, so that several callers can interleave between the read and the   *)
(* two writes of insert_document and replace_document.                     *)
(***************************************************************************)
EXTENDS Integers, Sequences, FiniteSets, TLC

VARIABLES
    db,          \* self.db: collection name -> sequence of documents
    db_history,  \* self.db_history: collection name -> sequence of documents
    cache,       \* self.__cache of every store instance
    now,         \* the wall clock, in seconds
    pc,          \* where each caller is inside insert/replace
    frame,       \* the local variables of the call a caller is inside
    ret,         \* what the last finished call of each caller returned or raised
    ops,         \* per (collection, #id): calls that have succeeded so far
    connections, \* PgDatabaseConnector.connections: the pooled Connections
    available,   \* Connection.available of every Connection created
    conn_count,  \* PgDatabaseConnector.conn_count
    qpc,         \* where each thread is inside exec_query
    qframe,      \* the local variables of exec_query in each thread
    qret         \* how the exec_query that ended last ended

\* the variables of the connection pool of mmm/data_sources/postgresql.py
pool_vars == <<connections, available, conn_count, qpc, qframe, qret>>

\* the variables of the document store
store_vars == <<db, db_history, cache, now, pc, frame, ret, ops>>

vars == <<db, db_history, cache, now, pc, frame, ret, ops,
          connections, available, conn_count, qpc, qframe, qret>>

----------------------------------------------------------------------------
(* Bounds of the model *)

MaxHist == 3      \* longest history collection explored
MaxVersion == 4   \* largest #version written
MaxCount == 4     \* most Connections created in a run

\* self.max_connections: the source sets 50, the model explores a pool of
\* this size
max_connections == 2

(* Program constants *)

cache_timeout_s == 300

default_author == "p0"

\* the instants the clock is observed at: a cache entry put at 0 is read at
\* the ages 0, timeout and timeout + 1
Clock == {0, cache_timeout_s, cache_timeout_s + 1}

\* the collection names of the store (two of the fourteen)
collection_names == {"sensors", "people"}

\* pymongo hands out a (lazily created, empty) collection for any name
Names == collection_names \cup {"bogus"}

Instances == {"A", "B"}
Callers == {"t1", "t2"}

\* the threads that call exec_query, one more than the pool has room for
Threads == {"q1", "q2", "q3"}

\* a Connection object is named by the number it was created under
ConnIds == 1..MaxCount
DocIds == {"s1", "s2", "p0"}
CacheKeys == collection_names \X DocIds

NoDoc == [none |-> TRUE]
NoEntry == [present |-> FALSE, timestamp |-> 0, doc |-> NoDoc]

----------------------------------------------------------------------------
(* Documents *)

MetaKeys == {"#id", "#version", "#creationDate", "#modificationDate", "#author"}

\* key.startswith("#"), over the keys of the model
IsMeta(key) == key \in MetaKeys

Restrict(doc, keys) == [k \in keys |-> doc[k]]

strip_metadata_fields(doc) == Restrict(doc, {k \in DOMAIN doc : ~IsMeta(k)})

metadata_fields(doc) == Restrict(doc, {k \in DOMAIN doc : IsMeta(k)})

\* dict.update: the keys of `other` win
update(base, other) == other @@ base

get_timestamp_string == now

\* db_collection.find({"#id": document_id})
find_id(coll, document_id) ==
    SelectSeq(coll, LAMBDA d : d["#id"] = document_id)

\* db_collection.find({"#id": document_id, "#version": version})
find_id_version(coll, document_id, version) ==
    SelectSeq(coll, LAMBDA d : /\ d["#id"] = document_id
                               /\ "#version" \in DOMAIN d
                               /\ d["#version"] = version)

\* index of the first document of coll with this #id, 0 when there is none
first_index(coll, document_id) ==
    IF \E n \in 1..Len(coll) : coll[n]["#id"] = document_id
    THEN CHOOSE n \in 1..Len(coll) :
            /\ coll[n]["#id"] = document_id
            /\ \A m \in 1..(n - 1) : coll[m]["#id"] # document_id
    ELSE 0

\* Collection.insert_one
insert_one(coll, doc) == Append(coll, doc)

\* a replace_one that writes only over the version just before doc's
replace_one_conditional(coll, document_id, doc) ==
    LET n == first_index(coll, document_id) IN
    IF n = 0 \/ coll[n]["#version"] + 1 # doc["#version"] THEN coll
    ELSE [coll EXCEPT ![n] = doc]

\* Collection.replace_one({"#id": document_id}, doc), upsert off
replace_one(coll, document_id, doc) ==
    LET n == first_index(coll, document_id) IN
    IF n = 0 THEN coll ELSE [coll EXCEPT ![n] = doc]

\* a delete_one that drops the document and all that follow it
delete_one_from(coll, document_id) ==
    LET n == first_index(coll, document_id) IN
    IF n = 0 THEN coll ELSE SubSeq(coll, 1, n - 1)

\* a delete_one that drops the last document when none has this #id
delete_one_wrap(coll, document_id) ==
    LET n == first_index(coll, document_id) IN
    IF n = 0 THEN SubSeq(coll, 1, Len(coll) - 1)
    ELSE SubSeq(coll, 1, n - 1) \o SubSeq(coll, n + 1, Len(coll))

\* Collection.delete_one({"#id": document_id})
delete_one(coll, document_id) ==
    LET n == first_index(coll, document_id) IN
    IF n = 0 THEN coll
    ELSE SubSeq(coll, 1, n - 1) \o SubSeq(coll, n + 1, Len(coll))

----------------------------------------------------------------------------
(* Validation.  The schemas (mmm/schemas.py) are not part of the sources:  *)
(* the envelope schema requires the five metadata fields, a collection     *)
(* schema requires the field "name".                                       *)

mmm_metadata == [id |-> "metadata", required |-> MetaKeys]

mmm_schemas == [c \in collection_names |-> [id |-> c, required |-> {"name"}]]

\* validate_schema: appends one diagnostic when the document violates it
validate_schema(doc, schema, errors) ==
    IF schema.required \subseteq DOMAIN doc THEN errors
    ELSE Append(errors, <<"not valid", doc["#id"], schema.id>>)

validate_errors(doc, collection) ==
    LET e1 == validate_schema(doc, mmm_metadata, <<>>) IN
    IF collection \notin DOMAIN mmm_schemas THEN e1
    ELSE validate_schema(doc, mmm_schemas[collection], e1)

\* validate_document(doc, collection, exception): TRUE when it raises
validate_raises(doc, collection, exception) ==
    validate_errors(doc, collection) # <<>> /\ exception

----------------------------------------------------------------------------
(* The cache *)

\* __add_to_cache
add_to_cache(ch, collection, doc) ==
    [ch EXCEPT ![<<collection, doc["#id"]>>] =
        [present |-> TRUE, timestamp |-> now, doc |-> doc]]

\* an expiry that also drops an entry whose age is the timeout
cache_expired_at_timeout(timestamp) == now - timestamp >= cache_timeout_s

\* the timeout condition of __get_from_cache
cache_expired(timestamp) == now - timestamp > cache_timeout_s

\* __get_from_cache: [doc, cache]; doc = NoDoc stands for None
get_from_cache(ch, collection, doc_id) ==
    IF <<collection, doc_id>> \notin DOMAIN ch
       \/ ~ch[<<collection, doc_id>>].present
    THEN [doc |-> NoDoc, cache |-> ch]
    ELSE IF cache_expired(ch[<<collection, doc_id>>].timestamp)
    THEN [doc |-> NoDoc,
          cache |-> [ch EXCEPT ![<<collection, doc_id>>] = NoEntry]]
    ELSE [doc |-> ch[<<collection, doc_id>>].doc, cache |-> ch]

----------------------------------------------------------------------------
(* Reads *)

\* get_documents(collection) of the current store; collection is known
get_documents(collection) == db[collection]

\* get_identifiers that skips the first document of the collection
get_identifiers_skip_first(collection) ==
    {get_documents(collection)[n]["#id"] :
        n \in 2..Len(get_documents(collection))}

\* identifiers read from the history store
get_identifiers_history(collection) ==
    {db_history[collection][n]["#id"] : n \in 1..Len(db_history[collection])}

\* get_identifiers: the history flag is ignored, the current store is read
get_identifiers(collection) ==
    {get_documents(collection)[n]["#id"] :
        n \in 1..Len(get_documents(collection))}

\* the database lookup of get_document, after a cache miss
lookup_document(ch, collection, document_id, version) ==
    LET documents == IF version # 0
                     THEN find_id_version(db_history[collection],
                                          document_id, version)
                     ELSE find_id(db[collection], document_id)
    IN
    IF collection \notin collection_names
    THEN [status |-> "LookupError", doc |-> NoDoc, cache |-> ch]
    ELSE IF Len(documents) > 1
    THEN [status |-> "AssertionError", doc |-> NoDoc, cache |-> ch]
    ELSE IF Len(documents) = 0
    THEN [status |-> "LookupError", doc |-> NoDoc, cache |-> ch]
    ELSE [status |-> "ok", doc |-> documents[1],
          cache |-> add_to_cache(ch, collection, documents[1])]

\* get_document: [status, doc, cache]
get_document_result(ch, collection, document_id, version) ==
    LET hit == get_from_cache(ch, collection, document_id) IN
    IF hit.doc # NoDoc
    THEN [status |-> "ok", doc |-> hit.doc, cache |-> hit.cache]
    ELSE lookup_document(hit.cache, collection, document_id, version)

----------------------------------------------------------------------------
(* Bookkeeping of the calls *)

NoFrame == [op |-> "none", inst |-> "A", collection |-> "sensors",
            document_id |-> "s1", new_document |-> NoDoc, as |-> "none",
            during |-> {}]

\* what healthcheck printed: its diagnostics and its warnings
NoReport == [errors |-> <<>>, warnings |-> <<>>]

NoRet == [op |-> "none", status |-> "none", doc |-> NoDoc, docs |-> <<>>,
          collection |-> "sensors", document_id |-> "s1", version |-> 0,
          during |-> {}, report |-> NoReport]

\* ins, rep: successful inserts, and successful replaces since the last
\* insert; del, vget: a delete, a versioned get has been made; writer: the
\* caller whose write to the current store was the last one, at: its time
NoOps == [ins |-> 0, rep |-> 0, del |-> FALSE, vget |-> FALSE,
          writer |-> "none", at |-> 0]

Idle == \A t \in Callers : pc[t] = "idle"

\* exec_query's locals: the length and the index of the loop of
\* get_available_connection, the connection c, the ignore_errors argument
NoQFrame == [n |-> 0, i |-> 0, c |-> 0, ignore_errors |-> FALSE]

\* the exec_query that ended last: its thread, how it ended, and the
\* connection it used (0: none)
NoQRet == [thread |-> "none", status |-> "none", c |-> 0]

HistRoom(collection) == Len(db_history[collection]) < MaxHist

VersionRoom(doc) == "#version" \in DOMAIN doc => doc["#version"] <= MaxVersion

\* the counters stop at MaxHist
Count(n) == IF n < MaxHist THEN n + 1 ELSE n

Bump(k, field) == [ops EXCEPT ![k][field] = Count(@)]

Wrote(t) ==
    [ops EXCEPT ![<<frame[t].collection, frame[t].document_id>>] =
                    [@ EXCEPT !.writer = t, !.at = now]]

Returned(t, op, status, doc, collection, document_id) ==
    ret' = [ret EXCEPT ![t] = [op |-> op, status |-> status, doc |-> doc,
                               docs |-> <<>>, collection |-> collection,
                               document_id |-> document_id, version |-> 0,
                               during |-> frame[t].during,
                               report |-> NoReport]]

\* a call that returns a list
ReturnedList(t, op, status, docs, collection, document_id) ==
    ret' = [ret EXCEPT ![t] = [op |-> op, status |-> status, doc |-> NoDoc,
                               docs |-> docs, collection |-> collection,
                               document_id |-> document_id, version |-> 0,
                               during |-> {}, report |-> NoReport]]

\* a call that writes a document to the current store and then raises
raise_after_write(t, op, status, collection, document_id) ==
    /\ Returned(t, op, status, NoDoc, collection, document_id)
    /\ db' = [db EXCEPT ![collection] =
                Append(@, ("#id" :> document_id))]
    /\ UNCHANGED <<db_history, now, pc, frame, ops>>

\* the call raises before it wrote anything to a database
Raise(t, op, status, collection, document_id) ==
    /\ Returned(t, op, status, NoDoc, collection, document_id)
    /\ UNCHANGED <<db, db_history, now, pc, frame, ops>>

\* the call goes on to its two database writes
Proceed(t, i, op, as, collection, document_id, new_document) ==
    /\ HistRoom(collection)
    /\ VersionRoom(new_document)
    /\ pc' = [pc EXCEPT ![t] = op]
    /\ frame' = [frame EXCEPT ![t] =
            [op |-> op, inst |-> i, collection |-> collection,
             document_id |-> document_id, new_document |-> new_document,
             as |-> as,
             during |-> {u \in Callers \ {t} : pc[u] # "idle"}]]
    /\ UNCHANGED <<db, db_history, now, ret, ops>>


----------------------------------------------------------------------------
Init ==
    /\ db = [c \in Names |-> <<>>]
    /\ db_history = [c \in Names |-> <<>>]
    /\ cache = [i \in Instances |-> [k \in CacheKeys |-> NoEntry]]
    /\ now = 0
    /\ pc = [t \in Callers |-> "idle"]
    /\ frame = [t \in Callers |-> NoFrame]
    /\ ret = [t \in Callers |-> NoRet]
    /\ ops = [k \in CacheKeys |-> NoOps]
    /\ connections = <<1>>
    /\ available = [c \in ConnIds |-> c = 1]
    /\ conn_count = 1
    /\ qpc = [t \in Threads |-> "idle"]
    /\ qframe = [t \in Threads |-> NoQFrame]
    /\ qret = NoQRet

\* time passes
tick(later) ==
    /\ later > now
    /\ UNCHANGED pool_vars
    /\ now' = later
    /\ UNCHANGED <<db, db_history, cache, pc, frame, ret, ops>>

----------------------------------------------------------------------------
(* replace_document *)

\* a version count that skips a number
next_version_skip(old_document) == old_document["#version"] + 2

\* the #version of the new document
next_version(old_document) == old_document["#version"] + 1

\* the metadata of the new document
new_metadata(old_document, author) ==
    update(metadata_fields(old_document),
           ("#version" :> next_version(old_document))
           @@ ("#modificationDate" :> get_timestamp_string)
           @@ ("#author" :> author))

\* contents == old_contents
no_change(contents, old_contents) == contents = old_contents

\* replace_document up to its first write; `as` is the call the caller made
replace_call(t, i, collection, document_id, document, author, force, as) ==
    LET a == IF author = "" THEN default_author ELSE author
        got == get_document_result(cache[i], collection, document_id, 0)
        old_document == got.doc
        old_contents == strip_metadata_fields(old_document)
        contents == strip_metadata_fields(document)
        new_document == update(new_metadata(old_document, a), contents)
    IN
    IF "#id" \notin DOMAIN document
    THEN /\ Raise(t, as, "KeyError", collection, document_id)
         /\ UNCHANGED cache
    ELSE IF document["#id"] # document_id
    THEN /\ Raise(t, as, "ValueError", collection, document_id)
         /\ UNCHANGED cache
    ELSE /\ cache' = [cache EXCEPT ![i] = got.cache]
         /\ IF got.status # "ok"
            THEN Raise(t, as, got.status, collection, document_id)
            ELSE IF "#version" \notin DOMAIN old_document
            THEN Raise(t, as, "KeyError", collection, document_id)
            ELSE IF no_change(contents, old_contents) /\ ~force
            THEN Raise(t, as, "AssertionError", collection, document_id)
            ELSE IF validate_raises(new_document, collection, ~force)
            THEN Raise(t, as, "ValueError", collection, document_id)
            ELSE Proceed(t, i, "rep_db", as, collection, document_id,
                         new_document)

replace_document(t, i, collection, document_id, document, author, force) ==
    /\ pc[t] = "idle"
    /\ UNCHANGED pool_vars
    /\ replace_call(t, i, collection, document_id, document, author, force,
                    "replace")

\* self.db[collection].replace_one({"#id": document_id}, new_document)
replace_write_db(t) ==
    /\ pc[t] = "rep_db"
    /\ UNCHANGED pool_vars
    /\ db' = [db EXCEPT ![frame[t].collection] =
                replace_one(@, frame[t].document_id, frame[t].new_document)]
    /\ pc' = [pc EXCEPT ![t] = "rep_hist"]
    /\ ops' = Wrote(t)
    /\ UNCHANGED <<db_history, cache, now, frame, ret>>

\* a history write that overwrites the entry of the document in place
replace_history_in_place(coll, new_document) ==
    replace_one(coll, new_document["#id"], new_document)

\* a replace_document that makes no write to the history store
replace_history_none(coll, new_document) == coll

\* the history collection after replace_document's second write
replace_history(coll, new_document) == insert_one(coll, new_document)

\* self.db_history[collection].insert_one(new_document); return
replace_write_history(t) ==
    /\ pc[t] = "rep_hist"
    /\ UNCHANGED pool_vars
    /\ db_history' = [db_history EXCEPT ![frame[t].collection] =
                        replace_history(@, frame[t].new_document)]
    /\ pc' = [pc EXCEPT ![t] = "idle"]
    /\ frame' = [frame EXCEPT ![t] = NoFrame]
    /\ Returned(t, frame[t].as, "ok", frame[t].new_document,
                frame[t].collection, frame[t].document_id)
    /\ ops' = Bump(<<frame[t].collection, frame[t].document_id>>, "rep")
    /\ UNCHANGED <<db, cache, now>>

----------------------------------------------------------------------------
(* insert_document *)

\* the generated metadata followed by the caller's contents
generated_document(document, author) ==
    update(("#id" :> document["#id"])
           @@ ("#version" :> 1)
           @@ ("#creationDate" :> get_timestamp_string)
           @@ ("#modificationDate" :> get_timestamp_string)
           @@ ("#author" :> author),
           strip_metadata_fields(document))

\* the author insert_document hands to replace_document when update is set
update_author(author) == ""

insert_document(t, i, collection, document, author, force, force_meta, update_) ==
    LET a == IF author = "" THEN default_author ELSE author
        new_document == IF ~force_meta
                        THEN generated_document(document, a)
                        ELSE document
    IN
    /\ pc[t] = "idle"
    /\ UNCHANGED pool_vars
    /\ IF collection \notin collection_names
       THEN /\ Raise(t, "insert", "ValueError", collection,
                     IF "#id" \in DOMAIN document THEN document["#id"]
                     ELSE "")
            /\ UNCHANGED cache
       ELSE IF "#id" \notin DOMAIN document
       THEN /\ Raise(t, "insert", "KeyError", collection, "")
            /\ UNCHANGED cache
       ELSE IF document["#id"] \in get_identifiers(collection)
       THEN IF update_
            THEN replace_call(t, i, collection, document["#id"], document,
                              update_author(author), force, "insert")
            ELSE /\ Raise(t, "insert", "NameError", collection,
                          document["#id"])
                 /\ UNCHANGED cache
       ELSE IF validate_raises(new_document, collection, ~force)
       THEN /\ Raise(t, "insert", "ValueError", collection, document["#id"])
            /\ UNCHANGED cache
       ELSE /\ Proceed(t, i, "ins_db", "insert", collection,
                       document["#id"], new_document)
            /\ UNCHANGED cache

\* self.db[collection].insert_one(new_document.copy())
insert_write_db(t) ==
    /\ pc[t] = "ins_db"
    /\ UNCHANGED pool_vars
    /\ db' = [db EXCEPT ![frame[t].collection] =
                insert_one(@, frame[t].new_document)]
    /\ pc' = [pc EXCEPT ![t] = "ins_hist"]
    /\ ops' = Wrote(t)
    /\ UNCHANGED <<db_history, cache, now, frame, ret>>

\* self.db_history[collection].insert_one(new_document.copy()); return
insert_write_history(t) ==
    /\ pc[t] = "ins_hist"
    /\ UNCHANGED pool_vars
    /\ db_history' = [db_history EXCEPT ![frame[t].collection] =
                        insert_one(@, frame[t].new_document)]
    /\ pc' = [pc EXCEPT ![t] = "idle"]
    /\ frame' = [frame EXCEPT ![t] = NoFrame]
    /\ Returned(t, "insert", "ok", frame[t].new_document,
                frame[t].collection, frame[t].document_id)
    /\ ops' = [ops EXCEPT ![<<frame[t].collection, frame[t].document_id>>] =
                [@ EXCEPT !.ins = Count(@), !.rep = 0]]
    /\ UNCHANGED <<db, cache, now>>

----------------------------------------------------------------------------
(* get_document, delete_document *)

get_document(t, i, collection, document_id, version) ==
    LET got == get_document_result(cache[i], collection, document_id, version)
    IN
    /\ pc[t] = "idle"
    /\ UNCHANGED pool_vars
    /\ cache' = [cache EXCEPT ![i] = got.cache]
    /\ ret' = [ret EXCEPT ![t] =
            [op |-> "get", status |-> got.status, doc |-> got.doc,
             docs |-> <<>>, collection |-> collection,
             document_id |-> document_id, version |-> version,
             during |-> {}, report |-> NoReport]]
    /\ ops' = IF version # 0 /\ <<collection, document_id>> \in CacheKeys
              THEN [ops EXCEPT ![<<collection, document_id>>].vget = TRUE]
              ELSE ops
    /\ UNCHANGED <<db, db_history, now, pc, frame>>

delete_document(t, collection, document_id) ==
    /\ pc[t] = "idle"
    /\ UNCHANGED pool_vars
    /\ db' = [db EXCEPT ![collection] = delete_one(@, document_id)]
    /\ Returned(t, "delete", "ok", NoDoc, collection, document_id)
    /\ ops' = IF <<collection, document_id>> \in CacheKeys
              THEN [ops EXCEPT ![<<collection, document_id>>].del = TRUE]
              ELSE ops
    /\ UNCHANGED <<db_history, cache, now, pc, frame>>

----------------------------------------------------------------------------
(* get_document_history, get_documents *)

\* no check of the collection name: an unknown collection is just empty
get_document_history(t, collection, document_id) ==
    LET documents == find_id(db_history[collection], document_id) IN
    /\ pc[t] = "idle"
    /\ UNCHANGED pool_vars
    /\ IF Len(documents) = 0
       THEN ReturnedList(t, "history", "LookupError", <<>>, collection,
                         document_id)
       ELSE ReturnedList(t, "history", "ok", documents, collection,
                         document_id)
    /\ UNCHANGED <<db, db_history, cache, now, pc, frame, ops>>

\* get_documents(collection, history=history), no filter
list_documents(t, collection, history) ==
    /\ pc[t] = "idle"
    /\ UNCHANGED pool_vars
    /\ IF collection \notin collection_names
       THEN ReturnedList(t, "list", "LookupError", <<>>, collection, "")
       ELSE ReturnedList(t, "list", "ok",
                         IF history THEN db_history[collection]
                         ELSE db[collection],
                         collection, "")
    /\ UNCHANGED <<db, db_history, cache, now, pc, frame, ops>>

----------------------------------------------------------------------------
(* validate_document called on its own *)

\* validate_document(doc, collection, exception); the diagnostics it
\* printed are kept in report.errors
validate_document(t, doc, collection, exception) ==
    /\ pc[t] = "idle"
    /\ UNCHANGED pool_vars
    /\ ret' = [ret EXCEPT ![t] =
            [NoRet EXCEPT
                !.op = "validate",
                !.status = IF validate_raises(doc, collection, exception)
                           THEN "ValueError" ELSE "ok",
                !.doc = doc,
                !.collection = collection,
                !.document_id = doc["#id"],
                !.report = [errors |-> validate_errors(doc, collection),
                            warnings |-> <<>>]]]
    /\ UNCHANGED <<db, db_history, cache, now, pc, frame, ops>>

----------------------------------------------------------------------------
(* healthcheck.  A scan carries [cache, errors, warnings, raised]: the     *)
(* cache of the instance, the diagnostics and the warnings so far, and the *)
(* exception that ended it.                                                *)

\* the link keys of the model in the order a document lists them, and
\* key[1:] for each
link_keys == <<"@people", "@sensors">>

link_target == ("@people" :> "people") @@ ("@sensors" :> "sensors")

\* __check_link
check_link(acc, parent_collection, parent_doc_id, target_collection, target_doc) ==
    LET got == get_document_result(acc.cache, target_collection, target_doc, 0)
    IN
    IF got.status = "ok"
    THEN [acc EXCEPT !.cache = got.cache]
    ELSE IF got.status = "LookupError"
    THEN [acc EXCEPT !.cache = got.cache,
                     !.errors = Append(acc.errors,
                            <<"broken link", parent_collection, parent_doc_id,
                              target_collection, target_doc>>)]
    ELSE [acc EXCEPT !.cache = got.cache, !.raised = got.status]

RECURSIVE check_list(_, _, _, _, _, _)
\* for val in value: __check_link(...)
check_list(acc, collection, doc_id, target_collection, value, n) ==
    IF n > Len(value) \/ acc.raised # "none" THEN acc
    ELSE check_list(check_link(acc, collection, doc_id, target_collection,
                               value[n]),
                    collection, doc_id, target_collection, value, n + 1)

RECURSIVE check_dict(_, _, _, _, _)
\* __check_dict over the link keys of a document; a link value is
\* [type |-> "str", v |-> <<id>>], [type |-> "list", v |-> <<id, ...>>] or
\* of another type
check_dict(acc, collection, doc_id, doc, n) ==
    IF n > Len(link_keys) \/ acc.raised # "none" THEN acc
    ELSE IF link_keys[n] \notin DOMAIN doc
    THEN check_dict(acc, collection, doc_id, doc, n + 1)
    ELSE LET value == doc[link_keys[n]]
             target == link_target[link_keys[n]]
             after == IF value.type = "str"
                      THEN check_link(acc, collection, doc_id, target,
                                      value.v[1])
                      ELSE IF value.type = "list"
                      THEN check_list(acc, collection, doc_id, target,
                                      value.v, 1)
                      ELSE [acc EXCEPT !.raised = "ValueError"]
         IN check_dict(after, collection, doc_id, doc, n + 1)

\* __warning: the deprecated field of a sensor
warning(collection, doc, warnings) ==
    IF collection = "sensors" /\ "deployment" \in DOMAIN doc
    THEN Append(warnings, <<"deprecated", collection, doc["#id"]>>)
    ELSE warnings

\* the body of healthcheck's loop for one document
check_document(acc, col, doc) ==
    LET e1 == validate_schema(doc, mmm_metadata, acc.errors)
        e2 == IF col \in DOMAIN mmm_schemas
              THEN validate_schema(doc, mmm_schemas[col], e1)
              ELSE e1
        checked == IF "#author" \notin DOMAIN doc
                   THEN [acc EXCEPT !.errors = e2, !.raised = "KeyError"]
                   ELSE check_dict(check_link([acc EXCEPT !.errors = e2], col,
                                              doc["#id"], "people",
                                              doc["#author"]),
                                   col, doc["#id"], doc, 1)
    IN
    IF checked.raised # "none" THEN checked
    ELSE [checked EXCEPT !.warnings = warning(col, doc, @)]

RECURSIVE check_documents(_, _, _, _)
check_documents(acc, col, docs, n) ==
    IF n > Len(docs) \/ acc.raised # "none" THEN acc
    ELSE check_documents(check_document(acc, col, docs[n]), col, docs, n + 1)

RECURSIVE check_collections(_, _, _)
check_collections(acc, collections, n) ==
    IF n > Len(collections) \/ acc.raised # "none" THEN acc
    ELSE IF collections[n] \notin collection_names
    THEN [acc EXCEPT !.raised = "LookupError"]
    ELSE check_collections(
            check_documents(acc, collections[n],
                            get_documents(collections[n]), 1),
            collections, n + 1)

\* self.collection_names, in the order of the list
collection_list == <<"sensors", "people">>

\* a scan that drops the documents of a store when it found diagnostics
scan_writes_drop(coll, errors) == IF errors = <<>> THEN coll ELSE <<>>

\* the writes of a scan to a collection of a store: it makes none
scan_writes(coll, errors) == coll

\* what healthcheck hands back: it ends without a return statement
healthcheck_return(errors, warnings) == <<>>

healthcheck(t, i, collections) ==
    LET scan == check_collections(
                    [cache |-> cache[i], errors |-> <<>>, warnings |-> <<>>,
                     raised |-> "none"],
                    IF collections = <<>> THEN collection_list
                    ELSE collections, 1)
    IN
    /\ pc[t] = "idle"
    /\ UNCHANGED pool_vars
    /\ cache' = [cache EXCEPT ![i] = scan.cache]
    /\ db' = [c \in Names |-> scan_writes(db[c], scan.errors)]
    /\ db_history' = [c \in Names |-> scan_writes(db_history[c], scan.errors)]
    /\ ret' = [ret EXCEPT ![t] =
            [NoRet EXCEPT
                !.op = "healthcheck",
                !.status = IF scan.raised = "none" THEN "ok" ELSE scan.raised,
                !.docs = IF scan.raised = "none"
                         THEN healthcheck_return(scan.errors, scan.warnings)
                         ELSE <<>>,
                !.collection = "", !.document_id = "",
                !.report = [errors |-> scan.errors,
                            warnings |-> scan.warnings]]]
    /\ UNCHANGED <<now, pc, frame, ops>>

----------------------------------------------------------------------------
(* reset_version_history *)

RECURSIVE reset_current(_, _, _)
\* the current collection after the loop over docs: a document whose
\* #version is not 1 is written back as it was read
reset_current(coll, docs, n) ==
    IF n > Len(docs) THEN coll
    ELSE reset_current(
            IF docs[n]["#version"] # 1
            THEN replace_one(coll, docs[n]["#id"], docs[n])
            ELSE coll,
            docs, n + 1)

\* Every document written with generated metadata has a #version; a
\* document without one would end the loop with KeyError, which is not
\* explored.
reset_version_history(t) ==
    /\ pc[t] = "idle"
    /\ UNCHANGED pool_vars
    /\ \A c \in collection_names : \A n \in 1..Len(db[c]) :
            "#version" \in DOMAIN db[c][n]
    /\ db_history' = [c \in Names |->
                        IF c \in collection_names THEN db[c] ELSE <<>>]
    /\ db' = [c \in Names |->
                IF c \in collection_names
                THEN reset_current(db[c], db[c], 1) ELSE db[c]]
    /\ Returned(t, "reset", "ok", NoDoc, "", "")
    /\ UNCHANGED <<cache, now, pc, frame, ops>>

----------------------------------------------------------------------------
(* The uniqueness pass of the constructor *)

\* ids: the #id of the documents of a collection, in their order
ids_of(documents) == [n \in 1..Len(documents) |-> documents[n]["#id"]]

\* the loop over ids: an id found in id_list already prints a line and adds
\* one to errors; the result holds the printed lines, its length is errors
RECURSIVE duplicated_ids(_, _, _, _)
duplicated_ids(c, ids, id_list, n) ==
    IF n > Len(ids) THEN <<>>
    ELSE IF ids[n] \notin id_list
         THEN duplicated_ids(c, ids, id_list \cup {ids[n]}, n + 1)
         ELSE <<<<"duplicated", c, ids[n]>>>>
                \o duplicated_ids(c, ids, id_list, n + 1)

\* a pass that forgets the errors of the collections before the last one
RECURSIVE ensure_ids_last_only(_)
ensure_ids_last_only(n) ==
    IF n > Len(collection_list) THEN <<>>
    ELSE IF n = Len(collection_list)
         THEN duplicated_ids(collection_list[n],
                             ids_of(get_documents(collection_list[n])), {}, 1)
         ELSE ensure_ids_last_only(n + 1)

\* the loop over self.collection_names: errors is not reset between them
RECURSIVE ensure_ids_errors(_)
ensure_ids_errors(n) ==
    IF n > Len(collection_list) THEN <<>>
    ELSE duplicated_ids(collection_list[n],
                        ids_of(get_documents(collection_list[n])), {}, 1)
            \o ensure_ids_errors(n + 1)

\* a document of some collection has no #id: doc["#id"] raises KeyError
missing_id ==
    \E c \in collection_names : \E n \in 1..Len(db[c]) :
        "#id" \notin DOMAIN db[c][n]

\* __ensure_ids as __init__ runs it: caller t constructs a store on the
\* databases; ValueError is raised after the loop over all the collections
ensure_ids(t) ==
    /\ pc[t] = "idle"
    /\ UNCHANGED pool_vars
    /\ LET errors == IF missing_id THEN <<>> ELSE ensure_ids_errors(1)
           status == IF missing_id THEN "KeyError"
                     ELSE IF Len(errors) > 0 THEN "ValueError" ELSE "ok"
       IN ret' = [ret EXCEPT ![t] =
                    [NoRet EXCEPT !.op = "ensure_ids", !.status = status,
                                  !.collection = "", !.document_id = "",
                                  !.report = [errors |-> errors,
                                              warnings |-> <<>>]]]
    /\ UNCHANGED <<db, db_history, cache, now, pc, frame, ops>>

----------------------------------------------------------------------------
(* The connection pool: PgDatabaseConnector.  Init holds the connection    *)
(* that __init__ creates with its call of get_available_connection.  A     *)
(* thread switch can fall between any two statements, so each statement    *)
(* that reads or writes the pool is a step.                                *)

\* exec_query leaves; its try block has no finally and takes no lock
query_return(t, status, c) ==
    /\ qpc' = [qpc EXCEPT ![t] = "idle"]
    /\ qframe' = [qframe EXCEPT ![t] = NoQFrame]
    /\ qret' = [thread |-> t, status |-> status, c |-> c]

\* list.remove: the first occurrence of c
remove(conns, c) ==
    LET n == CHOOSE n \in 1..Len(conns) :
                /\ conns[n] = c
                /\ \A m \in 1..(n - 1) : conns[m] # c
    IN SubSeq(conns, 1, n - 1) \o SubSeq(conns, n + 1, Len(conns))

\* exec_query is called; get_available_connection evaluates
\* range(len(self.connections)) once.  A call is explored when each thread
\* inside exec_query can still create its Connection within MaxCount.
exec_query(t, ignore_errors) ==
    /\ qpc[t] = "idle"
    /\ conn_count + Cardinality({u \in Threads : qpc[u] # "idle"}) < MaxCount
    /\ qpc' = [qpc EXCEPT ![t] = "scan"]
    /\ qframe' = [qframe EXCEPT ![t] =
                    [n |-> Len(connections), i |-> 1, c |-> 0,
                     ignore_errors |-> ignore_errors]]
    /\ UNCHANGED <<connections, available, conn_count, qret>>
    /\ UNCHANGED store_vars

\* one round of the for loop of get_available_connection: the connection at
\* index i is returned if its flag is set; the flag stays set until
\* run_query clears it.  self.connections[i] raises IndexError when the
\* list has become shorter than it was when the loop began.
get_available_connection(t) ==
    /\ qpc[t] = "scan"
    /\ LET f == qframe[t] IN
       IF f.i > f.n
       THEN /\ qpc' = [qpc EXCEPT ![t] = "wait"]
            /\ UNCHANGED <<qframe, qret>>
       ELSE IF f.i > Len(connections)
       THEN query_return(t, "IndexError", 0)
       ELSE IF available[connections[f.i]]
       THEN /\ qpc' = [qpc EXCEPT ![t] = "run"]
            /\ qframe' = [qframe EXCEPT ![t].c = connections[f.i]]
            /\ UNCHANGED qret
       ELSE /\ qframe' = [qframe EXCEPT ![t].i = f.i + 1]
            /\ UNCHANGED <<qpc, qret>>
    /\ UNCHANGED <<connections, available, conn_count>>
    /\ UNCHANGED store_vars

\* the condition of the while loop that guards the creation: the length of
\* the list alone
pool_full == Len(connections) >= max_connections

\* the while loop of get_available_connection ends; while the list is full
\* the thread sleeps and tests the length again
wait_for_room(t) ==
    /\ qpc[t] = "wait"
    /\ ~pool_full
    /\ qpc' = [qpc EXCEPT ![t] = "new"]
    /\ UNCHANGED <<connections, available, conn_count, qframe, qret>>
    /\ UNCHANGED store_vars

\* new_connection: the Connection is created with its flag set and appended
\* to the list
new_connection(t) ==
    /\ qpc[t] = "new"
    /\ conn_count' = conn_count + 1
    /\ connections' = Append(connections, conn_count + 1)
    /\ available' = [available EXCEPT ![conn_count + 1] = TRUE]
    /\ qpc' = [qpc EXCEPT ![t] = "run"]
    /\ qframe' = [qframe EXCEPT ![t].c = conn_count + 1]
    /\ UNCHANGED qret
    /\ UNCHANGED store_vars

\* Connection.run_query begins: self.available = False
run_query(t) ==
    /\ qpc[t] = "run"
    /\ available' = [available EXCEPT ![qframe[t].c] = FALSE]
    /\ qpc' = [qpc EXCEPT ![t] = "exec"]
    /\ UNCHANGED <<connections, conn_count, qframe, qret>>
    /\ UNCHANGED store_vars

\* the outcomes of cursor.execute / commit / fetchall
Outcomes == {"ok", "UniqueViolation", "Exception"}

\* the query ends: run_query returns after self.available = True, or it
\* raises and exec_query handles the exception
query_ends(t, outcome) ==
    LET c == qframe[t].c IN
    /\ qpc[t] = "exec"
    /\ IF outcome = "ok"
       THEN /\ available' = [available EXCEPT ![c] = TRUE]
            /\ query_return(t, "ok", c)
            /\ UNCHANGED connections
       ELSE IF outcome = "UniqueViolation"
       THEN /\ available' = [available EXCEPT ![c] = TRUE]
            /\ query_return(t, "UniqueViolation", c)
            /\ UNCHANGED connections
       ELSE IF ~qframe[t].ignore_errors
       THEN /\ query_return(t, "Exception", c)
            /\ UNCHANGED <<connections, available>>
       ELSE IF \E n \in 1..Len(connections) : connections[n] = c
       THEN /\ connections' = remove(connections, c)
            /\ query_return(t, "ok", c)
            /\ UNCHANGED available
       ELSE /\ query_return(t, "ValueError", c)
            /\ UNCHANGED <<connections, available>>
    /\ UNCHANGED conn_count
    /\ UNCHANGED store_vars

----------------------------------------------------------------------------
(* The calls explored: one caller on one store instance *)

Contents == {"A", "B"}

Payload(id, name) == ("#id" :> id) @@ ("name" :> name)

Payloads == {Payload("s1", name) : name \in Contents}

Versions == 0..2

Insert ==
    \E d \in Payloads, force \in BOOLEAN :
        insert_document("t1", "A", "sensors", d, "", force, FALSE, FALSE)

Replace ==
    \E d \in Payloads, force \in BOOLEAN :
        replace_document("t1", "A", "sensors", "s1", d, "", force)

InsertWriteDb == insert_write_db("t1")
InsertWriteHistory == insert_write_history("t1")
ReplaceWriteDb == replace_write_db("t1")
ReplaceWriteHistory == replace_write_history("t1")

Get == \E v \in Versions : get_document("t1", "A", "sensors", "s1", v)

Delete == delete_document("t1", "sensors", "s1")

GetHistory == get_document_history("t1", "sensors", "s1")

List == \E history \in BOOLEAN : list_documents("t1", "sensors", history)

Healthcheck == healthcheck("t1", "A", <<>>)

Reset == reset_version_history("t1")

Tick == \E later \in Clock : tick(later)

GetCurrent == get_document("t1", "A", "sensors", "s1", 0)

TickLate == tick(cache_timeout_s + 1)

Next ==
    \/ Insert
    \/ Replace
    \/ InsertWriteDb
    \/ InsertWriteHistory
    \/ ReplaceWriteDb
    \/ ReplaceWriteHistory
    \/ Get
    \/ Delete
    \/ Tick

Spec == Init /\ [][Next]_vars

----------------------------------------------------------------------------
(* Every operation of the store, reset_version_history included *)

InsertPlain ==
    \E d \in Payloads :
        insert_document("t1", "A", "sensors", d, "", FALSE, FALSE, FALSE)

ReplacePlain ==
    \E d \in Payloads :
        replace_document("t1", "A", "sensors", "s1", d, "", FALSE)

GetEither ==
    \E v \in 0..1 : get_document("t1", "A", "sensors", "s1", v)

NextAll ==
    \/ InsertPlain
    \/ ReplacePlain
    \/ InsertWriteDb
    \/ InsertWriteHistory
    \/ ReplaceWriteDb
    \/ ReplaceWriteHistory
    \/ GetEither
    \/ Delete
    \/ GetHistory
    \/ List
    \/ Healthcheck
    \/ Reset
    \/ TickLate

SpecAll == Init /\ [][NextAll]_vars

----------------------------------------------------------------------------
(* Calls that name an author, and insert_document with update set *)

Authors == {"", "p1"}

InsertUpdate ==
    \E d \in Payloads, author \in Authors, force \in BOOLEAN :
        insert_document("t1", "A", "sensors", d, author, force, FALSE, TRUE)

ReplaceAuthor ==
    \E d \in Payloads, author \in Authors, force \in BOOLEAN :
        replace_document("t1", "A", "sensors", "s1", d, author, force)

NextAuthor ==
    \/ InsertUpdate
    \/ ReplaceAuthor
    \/ InsertWriteDb
    \/ InsertWriteHistory
    \/ ReplaceWriteDb
    \/ ReplaceWriteHistory
    \/ GetCurrent
    \/ Delete
    \/ TickLate

SpecAuthor == Init /\ [][NextAuthor]_vars

----------------------------------------------------------------------------
(* Two callers of one store instance *)

InsertAny ==
    \E t \in Callers :
        insert_document(t, "A", "sensors", Payload("s1", "A"), "", FALSE,
                        FALSE, FALSE)

\* two new contents, so that two replaces of one document can differ
NewPayloads == {Payload("s1", name) : name \in {"B", "C"}}

ReplaceAny ==
    \E t \in Callers, d \in NewPayloads :
        replace_document(t, "A", "sensors", "s1", d, "", FALSE)

InsertWriteDbAny == \E t \in Callers : insert_write_db(t)
InsertWriteHistoryAny == \E t \in Callers : insert_write_history(t)
ReplaceWriteDbAny == \E t \in Callers : replace_write_db(t)
ReplaceWriteHistoryAny == \E t \in Callers : replace_write_history(t)

NextConc ==
    \/ InsertAny
    \/ ReplaceAny
    \/ InsertWriteDbAny
    \/ InsertWriteHistoryAny
    \/ ReplaceWriteDbAny
    \/ ReplaceWriteHistoryAny
    \/ TickLate

SpecConc == Init /\ [][NextConc]_vars

----------------------------------------------------------------------------
(* Deletes among two identifiers and two collections *)

FrameIds == {"s1", "s2"}

\* the documents inserted: s1 and s2 into sensors, s1 into people
FrameInserts == (collection_names \X FrameIds) \ {<<"people", "s2">>}

InsertFrame ==
    \E k \in FrameInserts :
        insert_document("t1", "A", k[1], Payload(k[2], "A"), "", FALSE, FALSE,
                        FALSE)

ReplaceFrame ==
    replace_document("t1", "A", "sensors", "s1", Payload("s1", "B"), "", FALSE)

DeleteAny == \E c \in Names, id \in FrameIds : delete_document("t1", c, id)

NextFrame ==
    \/ InsertFrame
    \/ ReplaceFrame
    \/ InsertWriteDb
    \/ InsertWriteHistory
    \/ ReplaceWriteDb
    \/ ReplaceWriteHistory
    \/ DeleteAny

SpecFrame == Init /\ [][NextFrame]_vars

----------------------------------------------------------------------------
(* Scans of sensors that link to people *)

Link(type, v) == [type |-> type, v |-> v]

\* sensors with a list of two links to p0, with a link value that is
\* neither a string nor a list, and with a deprecated field
LinkedPayloads ==
    { Payload("s1", "A") @@ ("@people" :> Link("list", <<"p0", "p0">>)),
      Payload("s1", "A") @@ ("@people" :> Link("int", <<>>)),
      Payload("s1", "A") @@ ("deployment" :> "A") }

\* a document kept as the caller wrote it, without #author
RawPayload == Payload("s1", "A") @@ ("#version" :> 1)

\* the collections argument of healthcheck
ScanArgs == {<<>>, <<"sensors">>}

InsertPerson ==
    insert_document("t1", "A", "people", Payload("p0", "A"), "", FALSE, FALSE,
                    FALSE)

InsertLinked ==
    \E d \in LinkedPayloads :
        insert_document("t1", "A", "sensors", d, "", FALSE, FALSE, FALSE)

InsertRaw ==
    insert_document("t1", "A", "sensors", RawPayload, "", TRUE, TRUE, FALSE)

DeleteLinked ==
    \E k \in {<<"people", "p0">>, <<"sensors", "s1">>} :
        delete_document("t1", k[1], k[2])

GetPerson == get_document("t1", "A", "people", "p0", 0)

HealthcheckAny ==
    \E collections \in ScanArgs : healthcheck("t1", "A", collections)

NextLinks ==
    \/ InsertPerson
    \/ InsertLinked
    \/ InsertRaw
    \/ InsertWriteDb
    \/ InsertWriteHistory
    \/ DeleteLinked
    \/ GetPerson
    \/ HealthcheckAny

SpecLinks == Init /\ [][NextLinks]_vars

----------------------------------------------------------------------------
(* Two store instances on the same databases: caller t1 writes through    *)
(* instance A, caller t2 reads through instance B                          *)

InsertA ==
    insert_document("t1", "A", "sensors", Payload("s1", "A"), "", FALSE,
                    FALSE, FALSE)

ReplaceA ==
    \E d \in Payloads :
        replace_document("t1", "A", "sensors", "s1", d, "", FALSE)

GetB == \E v \in 0..1 : get_document("t2", "B", "sensors", "s1", v)

NextTwo ==
    \/ InsertA
    \/ ReplaceA
    \/ InsertWriteDb
    \/ InsertWriteHistory
    \/ ReplaceWriteDb
    \/ ReplaceWriteHistory
    \/ GetB
    \/ Tick

SpecTwo == Init /\ [][NextTwo]_vars

----------------------------------------------------------------------------
(* Candidates that fail validation or carry metadata of their own *)

\* a candidate without the field the collection schema requires
Unnamed == ("#id" :> "s1") @@ ("other" :> "A")

\* a valid candidate that carries metadata fields
Carried == Payload("s1", "B") @@ ("#version" :> 3) @@ ("#author" :> "p1")

Candidates == {Payload("s1", "A"), Unnamed, Carried}

InsertValid ==
    \E d \in Candidates, force \in BOOLEAN :
        insert_document("t1", "A", "sensors", d, "", force, FALSE, FALSE)

\* the author handed to replace_document with each candidate
CandidateAuthor(d) == IF d = Carried THEN "p1" ELSE ""

ReplaceValid ==
    \E d \in Candidates, force \in BOOLEAN :
        replace_document("t1", "A", "sensors", "s1", d, CandidateAuthor(d),
                         force)

NextValid ==
    \/ InsertValid
    \/ ReplaceValid
    \/ InsertWriteDb
    \/ InsertWriteHistory
    \/ ReplaceWriteDb
    \/ ReplaceWriteHistory
    \/ Delete
    \/ TickLate

SpecValid == Init /\ [][NextValid]_vars

----------------------------------------------------------------------------
(* Calls with a collection name that may be unknown *)

SomeNames == {"sensors", "bogus"}

InsertNamed ==
    \E c \in SomeNames :
        insert_document("t1", "A", c, Payload("s1", "A"), "", FALSE, FALSE,
                        FALSE)

ReplaceNamed ==
    \E c \in SomeNames :
        replace_document("t1", "A", c, "s1", Payload("s1", "B"), "", FALSE)

GetNamed ==
    \E c \in SomeNames, v \in 0..1 : get_document("t1", "A", c, "s1", v)

GetHistoryNamed == \E c \in SomeNames : get_document_history("t1", c, "s1")

DeleteNamed == \E c \in SomeNames : delete_document("t1", c, "s1")

ListNamed ==
    \E c \in SomeNames, history \in BOOLEAN : list_documents("t1", c, history)

NextNames ==
    \/ InsertNamed
    \/ ReplaceNamed
    \/ InsertWriteDb
    \/ InsertWriteHistory
    \/ ReplaceWriteDb
    \/ ReplaceWriteHistory
    \/ GetNamed
    \/ GetHistoryNamed
    \/ DeleteNamed
    \/ ListNamed

SpecNames == Init /\ [][NextNames]_vars

----------------------------------------------------------------------------
(* Inserts that keep the metadata of the caller (force_meta) *)

\* a valid document with metadata of its own, at version 3
MetaPayload ==
    Payload("s1", "A") @@ ("#version" :> 3) @@ ("#creationDate" :> 0)
    @@ ("#modificationDate" :> 0) @@ ("#author" :> "p0")

InsertMeta ==
    insert_document("t1", "A", "sensors", MetaPayload, "", FALSE, TRUE, FALSE)

NextMeta ==
    \/ InsertPlain
    \/ InsertMeta
    \/ ReplacePlain
    \/ InsertWriteDb
    \/ InsertWriteHistory
    \/ ReplaceWriteDb
    \/ ReplaceWriteHistory
    \/ GetEither
    \/ Delete
    \/ TickLate

SpecMeta == Init /\ [][NextMeta]_vars

----------------------------------------------------------------------------
(* Documents handed to the validator *)

\* the fields a document may have next to its #id
OptionalKeys == (MetaKeys \ {"#id"}) \cup {"name"}

FieldValue(key) ==
    IF key = "#version" THEN 1
    ELSE IF key \in {"#creationDate", "#modificationDate"} THEN 0
    ELSE IF key = "#author" THEN default_author
    ELSE "A"

\* the document with #id s1 and these fields
Document(keys) ==
    [k \in keys \cup {"#id"} |-> IF k = "#id" THEN "s1" ELSE FieldValue(k)]

Validate ==
    \E keys \in SUBSET OptionalKeys, c \in Names, exception \in BOOLEAN :
        validate_document("t1", Document(keys), c, exception)

NextValidate == Validate

SpecValidate == Init /\ [][NextValidate]_vars

----------------------------------------------------------------------------
(* Stores constructed while two callers insert *)

InsertStart ==
    \E t \in Callers, k \in FrameInserts :
        insert_document(t, "A", k[1], Payload(k[2], "A"), "", FALSE, FALSE,
                        FALSE)

EnsureIds == \E t \in Callers : ensure_ids(t)

NextStart ==
    \/ InsertStart
    \/ InsertWriteDbAny
    \/ InsertWriteHistoryAny
    \/ EnsureIds

SpecStart == Init /\ [][NextStart]_vars

----------------------------------------------------------------------------
(* Calls that end by raising *)

\* a candidate without #id
Unidentified == "name" :> "A"

RaiseCandidates == {Payload("s1", "A"), Payload("s1", "B"), Unnamed,
                    Unidentified}

InsertRaise ==
    \E c \in SomeNames, d \in RaiseCandidates, force, update_ \in BOOLEAN :
        insert_document("t1", "A", c, d, "", force, FALSE, update_)

ReplaceRaise ==
    \E c \in SomeNames, id \in FrameIds, d \in RaiseCandidates,
       force \in BOOLEAN :
        replace_document("t1", "A", c, id, d, "", force)

NextRaise ==
    \/ InsertRaise
    \/ ReplaceRaise
    \/ InsertWriteDb
    \/ InsertWriteHistory
    \/ ReplaceWriteDb
    \/ ReplaceWriteHistory
    \/ Delete

SpecRaise == Init /\ [][NextRaise]_vars

----------------------------------------------------------------------------
(* Threads that call exec_query of one PgDatabaseConnector *)

ExecQuery ==
    \E t \in Threads, ignore_errors \in BOOLEAN : exec_query(t, ignore_errors)

GetAvailableConnection == \E t \in Threads : get_available_connection(t)

WaitForRoom == \E t \in Threads : wait_for_room(t)

NewConnection == \E t \in Threads : new_connection(t)

RunQuery == \E t \in Threads : run_query(t)

QueryEnds == \E t \in Threads, outcome \in Outcomes : query_ends(t, outcome)

NextPool ==
    \/ ExecQuery
    \/ GetAvailableConnection
    \/ WaitForRoom
    \/ NewConnection
    \/ RunQuery
    \/ QueryEnds

SpecPool == Init /\ [][NextPool]_vars

\* the threads of a run in which every query returns
ExecQueryPlain == \E t \in Threads : exec_query(t, FALSE)

QueryReturns == \E t \in Threads : query_ends(t, "ok")

NextReturns ==
    \/ ExecQueryPlain
    \/ GetAvailableConnection
    \/ WaitForRoom
    \/ NewConnection
    \/ RunQuery
    \/ QueryReturns

\* a thread inside exec_query goes on running (the interpreter switches
\* between the runnable threads), and its query finishes
Progress(t) ==
    \/ get_available_connection(t)
    \/ wait_for_room(t)
    \/ new_connection(t)
    \/ run_query(t)
    \/ query_ends(t, "ok")

SpecPoolFair ==
    /\ Init
    /\ [][NextReturns]_vars
    /\ \A t \in Threads : WF_vars(Progress(t))

----------------------------------------------------------------------------
(* Views of the two stores *)

Key == <<"sensors", "s1">>

\* the documents of the current store, of the history store, with this #id
Current(k) == find_id(db[k[1]], k[2])

History(k) == find_id(db_history[k[1]], k[2])

\* a call of caller t has just ended with this outcome
Ended(t, op, status) ==
    /\ pc[t] = "idle"
    /\ ret[t].op = op
    /\ ret[t].status = status

----------------------------------------------------------------------------
(* C1: after one successful insert of an identifier and N successful       *)
(* replace_document calls on it (unversioned reads interleaved, no delete, *)
(* one store instance), the current document has #version = 1 + N and the  *)
(* history of the identifier has N + 1 entries with #version 1, 2, ..., N+1 *)
C1_VersionCountsReplaces ==
    \A k \in CacheKeys :
        (Idle /\ ops[k].ins = 1 /\ ~ops[k].del /\ ~ops[k].vget) =>
            /\ Len(Current(k)) = 1
            /\ Current(k)[1]["#version"] = 1 + ops[k].rep
            /\ Len(History(k)) = ops[k].rep + 1
            /\ \A n \in 1..Len(History(k)) : History(k)[n]["#version"] = n

(* C2: a get_document with version = v, for an (identifier, v) recorded in *)
(* the history store, returns the document written at version v            *)
C2_VersionedGetReturnsRecorded ==
    \A t \in Callers :
        LET k == <<ret[t].collection, ret[t].document_id>>
            recorded == find_id_version(db_history[k[1]], k[2], ret[t].version)
        IN
        (pc[t] = "idle" /\ ret[t].op = "get" /\ ret[t].version # 0
         /\ Len(recorded) > 0) =>
            /\ ret[t].status = "ok"
            /\ \E n \in 1..Len(recorded) : ret[t].doc = recorded[n]

(* C3: no two entries of a history collection share #id and #version       *)
C3_HistoryEntriesUnique ==
    \A c \in collection_names :
        \A m, n \in 1..Len(db_history[c]) :
            (/\ db_history[c][m]["#id"] = db_history[c][n]["#id"]
             /\ db_history[c][m]["#version"] = db_history[c][n]["#version"])
            => m = n

(* C4: the current store of a collection never holds two documents with   *)
(* the same #id, also when two callers insert the same identifier at the   *)
(* same time                                                               *)
C4_CurrentIdsUnique ==
    \A c \in collection_names :
        \A m, n \in 1..Len(db[c]) :
            db[c][m]["#id"] = db[c][n]["#id"] => m = n

\* callers t and u have both returned from overlapping replace_document
\* calls on one identifier, with different contents and the same #version
C5_Raced(t, u) ==
    /\ t # u
    /\ Ended(t, "replace", "ok")
    /\ Ended(u, "replace", "ok")
    /\ ret[t].collection = ret[u].collection
    /\ ret[t].document_id = ret[u].document_id
    /\ u \in ret[t].during
    /\ ret[t].doc["#version"] = ret[u].doc["#version"]
    /\ strip_metadata_fields(ret[t].doc) # strip_metadata_fields(ret[u].doc)
    /\ ops[<<ret[t].collection, ret[t].document_id>>].ins = 1

(* C5: when two replace_document calls on one identifier overlap, both     *)
(* having read version N, both return successfully, the history store      *)
(* holds both new documents under the same #version N + 1, and the current *)
(* store holds only the document of the caller that wrote last             *)
C5_LostUpdate ==
    \A t, u \in Callers :
        C5_Raced(t, u) =>
            LET k == <<ret[t].collection, ret[t].document_id>>
                same == find_id_version(db_history[k[1]], k[2],
                                        ret[t].doc["#version"])
            IN
            /\ Len(same) >= 2
            /\ \E n \in 1..Len(same) : same[n] = ret[t].doc
            /\ \E n \in 1..Len(same) : same[n] = ret[u].doc
            /\ ops[k].writer \in {t, u}
            /\ Current(k) = <<ret[ops[k].writer].doc>>

C5_Witness == \E t, u \in Callers : C5_Raced(t, u)

(* C6: a replace_document whose contents equal the contents of the         *)
(* document held in the current store raises AssertionError (NoChange)     *)
(* when force is false, and with force it goes on to write the prior       *)
(* version plus 1; a replace whose contents differ from the stored ones is *)
(* not rejected as NoChange                                                *)
C6_NoChangeAgainstStored ==
    [][\A d \in Payloads, force \in BOOLEAN :
        (/\ replace_document("t1", "A", "sensors", "s1", d, "", force)
         /\ Len(Current(Key)) = 1)
        => LET stored == Current(Key)[1] IN
           IF strip_metadata_fields(d) = strip_metadata_fields(stored)
           THEN IF force
                THEN /\ pc'["t1"] = "rep_db"
                     /\ frame'["t1"].new_document["#version"]
                            = stored["#version"] + 1
                ELSE /\ pc'["t1"] = "idle"
                     /\ ret'["t1"].status = "AssertionError"
           ELSE ~(pc'["t1"] = "idle" /\ ret'["t1"].status = "AssertionError")
      ]_vars

(* C7: insert_document with update = false on an identifier present in the *)
(* current store raises NameError (AlreadyExists) and writes nothing to    *)
(* the current store or the history store                                  *)
C7_DuplicateInsertRejected ==
    [][\A d \in Payloads, force \in BOOLEAN :
        (/\ insert_document("t1", "A", "sensors", d, "", force, FALSE, FALSE)
         /\ Len(Current(<<"sensors", d["#id"]>>)) > 0)
        => /\ pc'["t1"] = "idle"
           /\ ret'["t1"].op = "insert"
           /\ ret'["t1"].status = "NameError"
           /\ UNCHANGED <<db, db_history>>
      ]_vars

\* a duplicate insert has just been rejected
C7_Witness ==
    /\ Ended("t1", "insert", "NameError")
    /\ Len(Current(Key)) = 1
    /\ Len(History(Key)) = 1

(* C8: insert_document with update = true on an identifier of the current *)
(* store is the step replace_document makes for the same document, author  *)
(* and force: the same outcome, stores, cache and document to be written   *)
C8_UpdateIsReplace ==
    [][\A d \in Payloads, author \in Authors, force \in BOOLEAN :
        (/\ insert_document("t1", "A", "sensors", d, author, force, FALSE,
                            TRUE)
         /\ d["#id"] \in get_identifiers("sensors"))
        => replace_call("t1", "A", "sensors", d["#id"], d, author, force,
                        "insert")
      ]_vars

(* C9: replace_document on an identifier absent from the current store     *)
(* raises LookupError (NotFound) and so appends nothing to the history      *)
C9_ReplaceAbsentNotFound ==
    [][\A d \in Payloads, force \in BOOLEAN :
        (/\ replace_document("t1", "A", "sensors", "s1", d, "", force)
         /\ Len(Current(Key)) = 0)
        => /\ pc'["t1"] = "idle"
           /\ ret'["t1"].status = "LookupError"
           /\ UNCHANGED <<db, db_history>>
      ]_vars

(* C10: history is append-only: a step that is not reset_version_history   *)
(* leaves every entry of every history collection in place and unchanged   *)
C10_HistoryAppendOnly ==
    [][Reset \/ \A c \in Names :
                    /\ Len(db_history'[c]) >= Len(db_history[c])
                    /\ SubSeq(db_history'[c], 1, Len(db_history[c]))
                            = db_history[c]
      ]_vars

\* the history kept its entries over a replace and a delete
C10_Witness ==
    /\ Ended("t1", "delete", "ok")
    /\ Len(Current(Key)) = 0
    /\ Len(History(Key)) >= 2


(* C11: in every state in which no write is in progress, each document of  *)
(* the current store is the highest-version snapshot of its identifier: no *)
(* history entry of the identifier has a higher #version, and the document *)
(* is one of the history entries                                           *)
C11_CurrentIsLatest ==
    Idle =>
        \A c \in collection_names : \A n \in 1..Len(db[c]) :
            LET snapshots == find_id(db_history[c], db[c][n]["#id"]) IN
            /\ \A m \in 1..Len(snapshots) :
                    snapshots[m]["#version"] <= db[c][n]["#version"]
            /\ \E m \in 1..Len(snapshots) : snapshots[m] = db[c][n]

\* the documents of coll whose #id is not document_id, in their order
Others(coll, document_id) ==
    SelectSeq(coll, LAMBDA d : d["#id"] # document_id)

(* C12: delete_document(collection, identifier) removes only the           *)
(* current-store entry of that identifier: the history store is unchanged, *)
(* and the current-store entries of every other identifier and of every    *)
(* other collection are unchanged                                          *)
C12_DeleteFrame ==
    [][\A c \in Names, id \in FrameIds :
        delete_document("t1", c, id) =>
           /\ db_history' = db_history
           /\ \A other \in Names \ {c} : db'[other] = db[other]
           /\ Others(db'[c], id) = Others(db[c], id)
           /\ Len(find_id(db'[c], id)) = 0
      ]_vars

\* s1 was deleted from sensors, with s2 after it in the collection, with
\* documents in people, and with its history kept
C12_Witness ==
    /\ Ended("t1", "delete", "ok")
    /\ ret["t1"].collection = "sensors"
    /\ ret["t1"].document_id = "s1"
    /\ ops[Key].ins > 0
    /\ Len(Current(Key)) = 0
    /\ Len(History(Key)) > 0
    /\ Len(db["sensors"]) > 0
    /\ Len(db["people"]) > 0

(* C13: delete_document is idempotent: called for an identifier that is    *)
(* absent from the current store it raises no error and leaves the current *)
(* store and the history store unchanged                                   *)
C13_DeleteIdempotent ==
    [][\A c \in Names, id \in FrameIds :
        (delete_document("t1", c, id) /\ Len(find_id(db[c], id)) = 0) =>
           /\ ret'["t1"].status = "ok"
           /\ UNCHANGED <<db, db_history>>
      ]_vars

\* s1 was deleted from sensors where it never was, and s2 is still there
C13_Witness ==
    /\ Ended("t1", "delete", "ok")
    /\ ret["t1"].collection = "sensors"
    /\ ret["t1"].document_id = "s1"
    /\ ops[Key].ins = 0
    /\ Len(find_id(db["sensors"], "s2")) = 1

(* C14: after a valid document is inserted (force_meta false) into a       *)
(* collection whose current store is empty, the next unversioned           *)
(* get_document of its identifier returns the inserted content with        *)
(* #version = 1 and #creationDate equal to #modificationDate               *)
C14_GetAfterFirstInsert ==
    [][(/\ get_document("t1", "A", "sensors", "s1", 0)
        /\ Ended("t1", "insert", "ok")
        /\ ret["t1"].collection = "sensors"
        /\ ret["t1"].document_id = "s1"
        /\ Len(db["sensors"]) = 1) =>
           /\ ret'["t1"].status = "ok"
           /\ strip_metadata_fields(ret'["t1"].doc)
                = strip_metadata_fields(ret["t1"].doc)
           /\ ret'["t1"].doc["#version"] = 1
           /\ ret'["t1"].doc["#creationDate"]
                = ret'["t1"].doc["#modificationDate"]
      ]_vars

\* the collections a scan with this argument goes through
Scanned(collections) ==
    IF collections = <<>> THEN collection_names
    ELSE {collections[n] : n \in 1..Len(collections)}

\* the link occurrences of a document: <<key, position, collection, #id>>
LinkOccurrences(doc) ==
    {<<"#author", 1, "people", doc["#author"]>>}
    \cup UNION {{<<link_keys[n], m, link_target[link_keys[n]],
                   doc[link_keys[n]].v[m]>> :
                        m \in 1..Len(doc[link_keys[n]].v)} :
                n \in {n \in 1..Len(link_keys) : link_keys[n] \in DOMAIN doc}}

\* the link occurrences of the scanned documents whose target is not in the
\* current store
BrokenOccurrences(cols) ==
    UNION {UNION {{<<c, n, o>> :
                        o \in {o \in LinkOccurrences(db[c][n]) :
                                    Len(find_id(db[o[3]], o[4])) = 0}} :
                  n \in 1..Len(db[c])} :
           c \in cols}

\* every scanned document has an #author, and link values that are a
\* string or a list
WellFormed(cols) ==
    \A c \in cols : \A n \in 1..Len(db[c]) :
        /\ "#author" \in DOMAIN db[c][n]
        /\ \A k \in DOMAIN db[c][n] \cap {"@people", "@sensors"} :
                db[c][n][k].type \in {"str", "list"}

BrokenLinkDiagnostics(errors) ==
    SelectSeq(errors, LAMBDA e : e[1] = "broken link")

(* C15: the scan run by healthcheck reports exactly one broken-link        *)
(* diagnostic for each link occurrence (and #author) of the scanned        *)
(* documents whose target is not in the current store: none when every     *)
(* target exists, and one per occurrence pointing at a target that         *)
(* delete_document removed, even if the target was read or scanned before  *)
C15_ScanReportsBrokenLinks ==
    [][\A collections \in ScanArgs :
        (/\ healthcheck("t1", "A", collections)
         /\ WellFormed(Scanned(collections))) =>
           Len(BrokenLinkDiagnostics(ret'["t1"].report.errors))
                = Cardinality(BrokenOccurrences(Scanned(collections)))
      ]_vars

(* C16: the scan and healthcheck never raise, whatever documents the       *)
(* current store holds (a link value that is neither a string nor a list,  *)
(* a document without #author): every healthcheck call ends normally       *)
C16_ScanNeverRaises ==
    \A t \in Callers :
        (pc[t] = "idle" /\ ret[t].op = "healthcheck") => ret[t].status = "ok"

(* C17: a healthcheck that found diagnostics or warnings for the requested *)
(* collections returns to its caller the pair (errors, warnings) that      *)
(* holds every one of them                                                 *)
C17_HealthcheckReturnsReport ==
    \A t \in Callers :
        (/\ Ended(t, "healthcheck", "ok")
         /\ ret[t].report # NoReport) =>
            ret[t].docs = <<ret[t].report.errors, ret[t].report.warnings>>

(* C18: healthcheck performs no mutation: the current store and the        *)
(* history store of every collection are the same after it as before it    *)
C18_HealthcheckFrame ==
    [][\A collections \in ScanArgs :
        healthcheck("t1", "A", collections) => UNCHANGED <<db, db_history>>
      ]_vars

\* a healthcheck found diagnostics in a store that holds documents, current
\* and past
C18_Witness ==
    /\ pc["t1"] = "idle"
    /\ ret["t1"].op = "healthcheck"
    /\ Len(ret["t1"].report.errors) > 0
    /\ Len(db["sensors"]) > 0
    /\ Len(db["people"]) > 0
    /\ Len(db_history["sensors"]) > 1

(* C19: with two store instances A and B on the same stores, once more     *)
(* than the TTL (300 s) has passed since the write of a replace made       *)
(* through A, every unversioned get of the identifier through B returns    *)
(* the document of the current store, whatever gets, versioned or not, B   *)
(* served in between                                                       *)
C19_StaleOnlyWithinTTL ==
    [][(/\ get_document("t2", "B", "sensors", "s1", 0)
        /\ ops[Key].rep > 0
        /\ ops[Key].writer = "t1"
        /\ Len(Current(Key)) = 1
        /\ now - ops[Key].at > cache_timeout_s) =>
           /\ ret'["t2"].status = "ok"
           /\ ret'["t2"].doc = Current(Key)[1]
      ]_vars

(* C20: get_document with a version given bypasses the cache: the call     *)
(* leaves the cache unchanged, and its result is that of the lookup in the *)
(* history store, whatever the cache holds                                 *)
C20_VersionedGetBypassesCache ==
    [][\A v \in Versions \ {0} :
        get_document("t1", "A", "sensors", "s1", v) =>
           LET stored == lookup_document(cache["A"], "sensors", "s1", v) IN
           /\ cache' = cache
           /\ ret'["t1"].status = stored.status
           /\ ret'["t1"].doc = stored.doc
      ]_vars

(* C21: a cache lookup for (collection, identifier) returns the cached     *)
(* document when an entry exists and its age is at most the TTL, and the   *)
(* entry keeps the time it was put; otherwise it is a miss, the get goes   *)
(* to the store, and a stale entry does not survive: the entry is then     *)
(* absent or holds the document just read, put at the time of the read     *)
C21_CacheLookup ==
    [][(get_document("t1", "A", "sensors", "s1", 0)) =>
        LET entry == cache["A"][Key]
            stored == lookup_document(cache["A"], "sensors", "s1", 0)
        IN
        IF entry.present /\ now - entry.timestamp <= cache_timeout_s
        THEN /\ ret'["t1"].status = "ok"
             /\ ret'["t1"].doc = entry.doc
             /\ cache' = cache
        ELSE /\ ret'["t1"].status = stored.status
             /\ ret'["t1"].doc = stored.doc
             /\ cache'["A"][Key] =
                    IF stored.status = "ok"
                    THEN [present |-> TRUE, timestamp |-> now,
                          doc |-> stored.doc]
                    ELSE NoEntry
      ]_vars

\* a get was answered from the cache, at most 300 s after the entry was
\* put at time 0, with a document that is no longer in the current store
C21_Witness ==
    /\ Ended("t1", "get", "ok")
    /\ ret["t1"].version = 0
    /\ Len(Current(Key)) = 0
    /\ cache["A"][Key].present
    /\ cache["A"][Key].timestamp = 0
    /\ cache["A"][Key].doc = ret["t1"].doc
    /\ now = cache_timeout_s

\* the candidate, with generated metadata, fails validation for sensors
FailsValidation(d) ==
    validate_errors(generated_document(d, default_author), "sensors") # <<>>

\* doc is one of the documents of coll
Holds(coll, doc) == \E n \in 1..Len(coll) : coll[n] = doc

(* C22: for insert_document and replace_document alike, a candidate that   *)
(* fails validation is rejected with ValueError and written to neither     *)
(* store when force is false, and is written to both the current store and *)
(* the history store when force is true                                    *)
C22_ValidationAndForce ==
    [][/\ \A d \in Candidates :
            (/\ insert_document("t1", "A", "sensors", d, "", FALSE, FALSE,
                                FALSE)
             /\ FailsValidation(d)
             /\ Len(Current(Key)) = 0) =>
                /\ ret'["t1"].status = "ValueError"
                /\ UNCHANGED <<db, db_history>>
       /\ \A d \in Candidates :
            (/\ replace_document("t1", "A", "sensors", "s1", d,
                                 CandidateAuthor(d), FALSE)
             /\ FailsValidation(d)
             /\ Len(Current(Key)) = 1
             /\ strip_metadata_fields(Current(Key)[1])
                    # strip_metadata_fields(d)) =>
                /\ ret'["t1"].status = "ValueError"
                /\ UNCHANGED <<db, db_history>>
       /\ ((InsertWriteHistory \/ ReplaceWriteHistory)
           /\ validate_errors(frame["t1"].new_document, "sensors") # <<>>) =>
                /\ ret'["t1"].status = "ok"
                /\ Holds(db'["sensors"], frame["t1"].new_document)
                /\ Holds(db_history'["sensors"], frame["t1"].new_document)
      ]_vars

\* a call of caller t1 with the unknown collection name
UnknownCollectionCall ==
    \/ insert_document("t1", "A", "bogus", Payload("s1", "A"), "", FALSE,
                       FALSE, FALSE)
    \/ replace_document("t1", "A", "bogus", "s1", Payload("s1", "B"), "",
                        FALSE)
    \/ \E v \in 0..1 : get_document("t1", "A", "bogus", "s1", v)
    \/ get_document_history("t1", "bogus", "s1")
    \/ delete_document("t1", "bogus", "s1")
    \/ \E history \in BOOLEAN : list_documents("t1", "bogus", history)

(* C23: every store operation called with a collection name outside the    *)
(* known collections (insert, replace, get with or without version,        *)
(* getHistory, delete, list) fails for that call and leaves the current    *)
(* store, the history store and the cache unchanged                        *)
C23_UnknownCollectionRejected ==
    [][UnknownCollectionCall =>
            /\ ret'["t1"].status \in {"ValueError", "LookupError"}
            /\ pc'["t1"] = "idle"
            /\ UNCHANGED <<db, db_history, cache>>
      ]_vars

\* the #version values of the history entries of an identifier
HistoryVersions(k) == {History(k)[n]["#version"] : n \in 1..Len(History(k))}

\* they are 1, ..., N for some N
Gapless(versions) == versions = 1..Cardinality(versions)

(* C24: in every state reachable by inserts (with or without force_meta),  *)
(* replaces and deletes, the #version values of the history entries of an  *)
(* identifier are exactly 1, ..., N: they start at 1 and have no gaps      *)
C24_VersionsGapless == \A k \in CacheKeys : Gapless(HistoryVersions(k))

\* the history write of an insert that kept a #version other than 1, which
\* only an insert with force_meta makes
MetaHistoryWrite ==
    /\ insert_write_history("t1")
    /\ frame["t1"].new_document["#version"] # 1

(* C24, amended: every step of an insert without force_meta, of a replace, *)
(* of a delete or of a get keeps the #version values of the history        *)
(* entries of an identifier exactly 1, ..., N; only the history write of   *)
(* an insert with force_meta can break it                                  *)
C24_StepsKeepGapless ==
    [][(C24_VersionsGapless /\ ~MetaHistoryWrite) => C24_VersionsGapless'
      ]_vars

\* after a delete and a re-insert the history holds versions 1, 2 and a
\* second version 1
C24_Witness ==
    /\ Idle
    /\ ops[Key].del
    /\ Len(History(Key)) = 3
    /\ HistoryVersions(Key) = 1..2
    /\ Len(Current(Key)) = 1

(* C25: the Inconsistent outcome of get_document is impossible: in no      *)
(* state reachable through insert, replace, delete and get does a          *)
(* get_document call end with AssertionError (more than one stored match)  *)
C25_GetNeverInconsistent ==
    \A t \in Callers :
        (pc[t] = "idle" /\ ret[t].op = "get") =>
            ret[t].status # "AssertionError"

(* C26: a deleted identifier can be re-inserted: after insert, replaces    *)
(* and delete, an insert_document of the identifier with update false      *)
(* succeeds and stores #version = 1, and the history store then holds a    *)
(* second entry with version 1 next to the earlier entries, all retained   *)
C26_ReinsertAfterDelete ==
    [][/\ \A d \in Payloads, force \in BOOLEAN :
            (/\ insert_document("t1", "A", "sensors", d, "", force, FALSE,
                                FALSE)
             /\ Len(Current(Key)) = 0
             /\ Len(History(Key)) > 0) =>
                /\ pc'["t1"] = "ins_db"
                /\ frame'["t1"].new_document["#version"] = 1
                /\ strip_metadata_fields(frame'["t1"].new_document)
                        = strip_metadata_fields(d)
       /\ (InsertWriteHistory /\ Len(History(Key)) > 0) =>
                /\ ret'["t1"].status = "ok"
                /\ ret'["t1"].doc = frame["t1"].new_document
                /\ find_id(db'["sensors"], "s1") = <<frame["t1"].new_document>>
                /\ find_id(db_history'["sensors"], "s1")
                        = Append(History(Key), frame["t1"].new_document)
                /\ Len(find_id_version(db_history'["sensors"], "s1", 1)) >= 2
      ]_vars

\* s1 was inserted, replaced, deleted and inserted again
C26_Witness ==
    /\ Ended("t1", "insert", "ok")
    /\ ops[Key].del
    /\ Current(Key) = <<ret["t1"].doc>>
    /\ ret["t1"].doc["#version"] = 1
    /\ Len(History(Key)) = 3
    /\ History(Key)[2]["#version"] = 2
    /\ History(Key)[3] = ret["t1"].doc

(* C27: get_document_history(collection, identifier) returns all history   *)
(* entries of the identifier, and only those, ordered by ascending         *)
(* #version; it fails with LookupError exactly when the identifier has no  *)
(* history entry                                                           *)
C27_HistoryAscending ==
    [][\A c \in collection_names, id \in DocIds :
        get_document_history("t1", c, id) =>
            LET entries == find_id(db_history[c], id)
                docs == ret'["t1"].docs
            IN
            IF Len(entries) = 0
            THEN ret'["t1"].status = "LookupError"
            ELSE /\ ret'["t1"].status = "ok"
                 /\ Len(docs) = Len(entries)
                 /\ \A n \in 1..Len(entries) :
                        Len(SelectSeq(docs, LAMBDA d : d = entries[n]))
                        = Len(SelectSeq(entries, LAMBDA d : d = entries[n]))
                 /\ \A m, n \in 1..Len(docs) :
                        m < n => docs[m]["#version"] <= docs[n]["#version"]
      ]_vars

(* C28: a successful replace_document produces a document whose #id and    *)
(* #creationDate are those of the prior document, whose #version is the    *)
(* prior version plus 1, whose #author is the supplied author or the       *)
(* default author, and whose other fields are exactly the candidate's      *)
(* non-metadata fields                                                     *)
C28_ReplaceMetadata ==
    [][\A d \in Candidates, force \in BOOLEAN :
        (/\ replace_document("t1", "A", "sensors", "s1", d,
                             CandidateAuthor(d), force)
         /\ pc'["t1"] = "rep_db"
         /\ Len(Current(Key)) = 1) =>
            LET new_document == frame'["t1"].new_document
                prior == Current(Key)[1]
            IN
            /\ new_document["#id"] = prior["#id"]
            /\ new_document["#creationDate"] = prior["#creationDate"]
            /\ new_document["#version"] = prior["#version"] + 1
            /\ new_document["#author"] =
                    IF CandidateAuthor(d) = "" THEN default_author
                    ELSE CandidateAuthor(d)
            /\ strip_metadata_fields(new_document) = strip_metadata_fields(d)
      ]_vars

\* the fields a schema requires that the document does not have
MissingFields(doc, schema) == schema.required \ DOMAIN doc

\* the violations of a document against the envelope schema and, when one
\* is registered, the schema of the collection
Violations(doc, collection) ==
    Cardinality(MissingFields(doc, mmm_metadata))
    + IF collection \in DOMAIN mmm_schemas
      THEN Cardinality(MissingFields(doc, mmm_schemas[collection]))
      ELSE 0

(* C29: the validator does not fail fast: one validation call evaluates    *)
(* the envelope schema and, when one is registered, the collection schema  *)
(* even if the envelope check failed, and its diagnostics have one entry   *)
(* for every violation of the document against either schema               *)
C29_ValidatorReportsAll ==
    [][\A keys \in SUBSET OptionalKeys, c \in Names, exception \in BOOLEAN :
        validate_document("t1", Document(keys), c, exception) =>
            LET errors == ret'["t1"].report.errors IN
            /\ (c \in DOMAIN mmm_schemas
                /\ MissingFields(Document(keys), mmm_schemas[c]) # {}) =>
                    \E n \in 1..Len(errors) : errors[n][3] = c
            /\ Len(errors) = Violations(Document(keys), c)
      ]_vars

\* how many times doc is in coll
Copies(coll, doc) == Len(SelectSeq(coll, LAMBDA d : d = doc))

(* C30: after reset_version_history every document of the current store    *)
(* has #version = 1, and the history store holds exactly one entry for     *)
(* each document of the current store, equal to it, and nothing else       *)
C30_ResetResult ==
    [][Reset =>
        \A c \in collection_names :
            /\ \A n \in 1..Len(db'[c]) : db'[c][n]["#version"] = 1
            /\ Len(db_history'[c]) = Len(db'[c])
            /\ \A n \in 1..Len(db'[c]) :
                    Copies(db_history'[c], db'[c][n])
                        = Copies(db'[c], db'[c][n])
      ]_vars

\* the positions of a collection whose #id stands at an earlier position too
Repeated(c) ==
    {n \in 1..Len(db[c]) :
        \E m \in 1..(n - 1) : db[c][m]["#id"] = db[c][n]["#id"]}

(* C31: the uniqueness pass of the constructor fails with ValueError if    *)
(* and only if the current store of some collection holds two documents    *)
(* with the same #id, and the number of duplicates it reports is the       *)
(* number of repeated documents of all the collections together            *)
C31_EnsureIds ==
    [][\A t \in Callers :
        ensure_ids(t) =>
           /\ ret'[t].status = "ValueError"
                <=> \E c \in collection_names : Repeated(c) # {}
           /\ ret'[t].status \in {"ValueError", "ok"}
           /\ \A c \in collection_names :
                Cardinality({n \in 1..Len(ret'[t].report.errors) :
                                ret'[t].report.errors[n][2] = c})
                    = Cardinality(Repeated(c))
      ]_vars

\* a construction failed on duplicates in sensors and in people
C31_Witness ==
    /\ \E t \in Callers : Ended(t, "ensure_ids", "ValueError")
                          /\ Len(ret[t].report.errors) = 2
    /\ \A c \in collection_names : Repeated(c) # {}

(* C32: read-your-writes on one store instance: after a successful         *)
(* replace_document of an identifier, the next unversioned get_document of *)
(* that identifier on the same instance returns the document that the      *)
(* replace returned, also when the identifier was read, and so cached,     *)
(* less than the cache timeout before the replace                          *)
C32_ReadYourWrites ==
    [][(/\ Ended("t1", "replace", "ok")
        /\ ret["t1"].collection = "sensors"
        /\ ret["t1"].document_id = "s1"
        /\ get_document("t1", "A", "sensors", "s1", 0)) =>
            /\ ret'["t1"].status = "ok"
            /\ ret'["t1"].doc = ret["t1"].doc
      ]_vars

\* the outcomes of an insert_document or replace_document that raised; a
\* call that raises ends in the step that made it, a call that succeeds
\* ends with its write to the history store
Raised == {"ValueError", "KeyError", "NameError", "LookupError",
           "AssertionError"}

(* C33: an insert_document or replace_document call that ends by raising   *)
(* (unknown collection, missing or mismatched identifier, identifier       *)
(* already present, identifier not found, no change, failed validation     *)
(* without force) leaves the current store and the history store of every  *)
(* collection as they were before the call                                 *)
C33_RaiseFrame ==
    [][(/\ pc["t1"] = "idle"
        /\ pc'["t1"] = "idle"
        /\ ret'["t1"].op \in {"insert", "replace"}) =>
            /\ ret'["t1"].status \in Raised
            /\ db' = db
            /\ db_history' = db_history
      ]_vars

\* a replace of a stored document failed validation, the stores holding
\* documents
C33_Witness ==
    /\ Ended("t1", "replace", "ValueError")
    /\ ret["t1"].collection = "sensors"
    /\ ret["t1"].document_id = "s1"
    /\ Len(Current(Key)) = 1
    /\ Len(History(Key)) > 1

\* the history store of collection c holds an entry with the #id, the
\* #version and the contents of document d
Recorded(c, d) ==
    \E m \in 1..Len(db_history[c]) :
        /\ db_history[c][m]["#id"] = d["#id"]
        /\ db_history[c][m]["#version"] = d["#version"]
        /\ strip_metadata_fields(db_history[c][m]) = strip_metadata_fields(d)

(* C34: the two stores are written one after the other, the current store  *)
(* first; in every state in which no insert and no replace is in progress, *)
(* each document of the current store has an entry in the history store    *)
(* with the same #id, the same #version and the same contents, with        *)
(* concurrent writers too                                                  *)
C34_CurrentRecorded ==
    Idle =>
        \A c \in collection_names : \A n \in 1..Len(db[c]) :
            Recorded(c, db[c][n])

\* two replaces of one document overlapped and both have ended
C34_Witness ==
    /\ Idle
    /\ \E t, u \in Callers : C5_Raced(t, u)
    /\ Len(Current(Key)) > 0
    /\ Len(History(Key)) > 2

(* C35: PgDatabaseConnector never holds more than max_connections          *)
(* connections: in every reachable state, whatever the number of threads   *)
(* inside exec_query, len(connections) <= max_connections                  *)
C35_PoolBounded == Len(connections) <= max_connections

\* a query of thread t is in progress on connection c
Running(t, c) == qpc[t] = "exec" /\ qframe[t].c = c

(* C36: a pooled connection is used by one query at a time: no two         *)
(* run_query executions are in progress on the same Connection, a          *)
(* connection handed out by get_available_connection is not handed to a    *)
(* second caller before the query of the first has finished                *)
C36_OneQueryPerConnection ==
    \A t, u \in Threads, c \in ConnIds :
        Running(t, c) /\ Running(u, c) => t = u

\* the connection is in the list of the pool
Pooled(conns, c) == \E n \in 1..Len(conns) : conns[n] = c

(* C37: whenever exec_query finishes, by returning or by raising, the      *)
(* connection it used is marked available again or has been removed from   *)
(* the list of the pool                                                    *)
C37_ConnectionReleased ==
    [][\A t \in Threads :
        (qpc[t] = "exec" /\ qpc'[t] = "idle") =>
            \/ available'[qframe[t].c]
            \/ ~Pooled(connections', qframe[t].c)
      ]_vars

\* thread t is in the while loop of get_available_connection with the pool
\* full
Waits(t) == qpc[t] = "wait" /\ pool_full

\* a connection of the pool has its flag set
SomeAvailable == \E n \in 1..Len(connections) : available[connections[n]]

(* C38: a get_available_connection call that finds the pool at             *)
(* max_connections with no connection available waits, and returns a       *)
(* connection in the end, once a pooled connection is available again,     *)
(* every running query finishing                                           *)
C38_WaitEnds ==
    \A t \in Threads : (Waits(t) /\ SomeAvailable) ~> (qpc[t] = "run")

============================================================================
